---- MODULE Spec2Model ----
(***************************************************************************)
(* A model of src/app.py: the PaperManager session (raw collection, sorted *)
(* collection, sort method, pagination) and the two controller functions   *)
(* initialize_app and change_sort_method that the UI events call.          *)
(*                                                                         *)
(* Spec runs the callbacks one after the other, each as one step.          *)
(* ScoreSpec applies the two score functions to one paper.  ThreadSpec     *)
(* runs the callbacks on worker threads, every read and write of an        *)
(* attribute of the shared PaperManager being a step of its own.           *)
(*                                                                         *)
(* Time is counted in whole hours.  The wall clock is a variable; every    *)
(* datetime.now() of a sort pass is a separate read of it, and the clock   *)
(* may advance between two reads.                                          *)
(*                                                                         *)
(* A paper is a record [id, votes_kind, votes, ts_kind, ts]:               *)
(*   votes_kind  "int" | "missing" | "null"   paper.upvotes                *)
(*   ts_kind     "iso" | "missing" | "null" | "empty" | "garbage"          *)
(*               publishedAt: an ISO-8601 string of the instant ts, no     *)
(*               key, JSON null, the string "", a string that is no date   *)
(* Scores are rationals, compared by cross-multiplication (the floating    *)
(* point rounding of the code is not modelled).                            *)
(***************************************************************************)
EXTENDS Integers, Sequences, FiniteSets

VARIABLES
    raw_papers,     \* self.raw_papers
    papers,         \* self.papers
    sort_method,    \* self.sort_method
    current_page,   \* self.current_page
    total_pages,    \* self.total_pages
    clock,          \* what datetime.now(timezone.utc) returns, in hours
    last,           \* the last UI callback, its input and what it returned
    running         \* the callbacks in flight on worker threads: position and locals

vars == <<raw_papers, papers, sort_method, current_page, total_pages, clock, last,
          running>>

papers_per_page == 30

\* Bounds of the model.
MaxClock == 1        \* the clock runs from 0 to MaxClock
MaxTickReads == 4    \* the clock may advance before one of the first MaxTickReads reads of a sort pass

Min(a, b) == IF a < b THEN a ELSE b
Max(a, b) == IF a > b THEN a ELSE b

(***************************************************************************)
(* The data the API may return.                                            *)
(***************************************************************************)
Paper(id, vk, v, tk, t) ==
    [id |-> id, votes_kind |-> vk, votes |-> v, ts_kind |-> tk, ts |-> t]

\* Records: well-formed ones and the malformed ones.
Old(id)          == Paper(id, "int", 1, "iso", -1)      \* one hour old at clock 0
Fresh(id)        == Paper(id, "int", 1, "iso", 0)       \* published at clock 0
NoVotes(id)      == Paper(id, "missing", 0, "iso", -1)  \* no upvotes key
NullVotes(id)    == Paper(id, "null", 0, "iso", -1)     \* upvotes: null
NullTime(id)     == Paper(id, "int", 1, "null", 0)      \* publishedAt: null
NoTime(id)       == Paper(id, "int", 1, "missing", 0)   \* no publishedAt key
EmptyTime(id)    == Paper(id, "int", 1, "empty", 0)     \* publishedAt: ""
GarbageTime(id)  == Paper(id, "int", 1, "garbage", 0)   \* publishedAt: "garbage"
Future2(id)      == Paper(id, "int", 1, "iso", 2)       \* published two hours after clock 0
Future3(id)      == Paper(id, "int", 1, "iso", 3)       \* published three hours after clock 0

SmallLists ==
    { <<Old(1), Fresh(2)>>,
      <<NullTime(1)>>,
      <<EmptyTime(1), EmptyTime(2), Old(3)>>,
      <<NoTime(1), GarbageTime(2), Old(3)>>,
      <<Future2(1), Old(2)>>,
      <<Future3(1), Old(2)>> }

\* A list of n records, every fifth without an upvotes key, well-formed
\* except that with bad = "nullvotes" the first one has upvotes: null.
Gen(n, bad) ==
    [i \in 1..n |->
        IF i = 1 /\ bad = "nullvotes" THEN NullVotes(i)
        ELSE IF i % 5 = 0 THEN NoVotes(i)
        ELSE Paper(i, "int", (i * 7) % 5, "iso", -(i % 4))]

LongSize == 45

LongLists == { Gen(LongSize, bad) : bad \in {"none", "nullvotes"} }

\* What response.json() may be.
ApiData == {<<>>} \cup SmallLists \cup LongLists

(***************************************************************************)
(* Scoring.  A sort key is a record [kind, v, d, exc]:                     *)
(*   "hot"      the float  v / d^1.5   with d = hours + 2 > 0              *)
(*   "rising"   the float  v / d       with d = hours + 1 # 0              *)
(*   "complex"  a complex number: Python's  negative ** 1.5                *)
(*   "str"      a string; <<v, d>> is its place in lexicographic order     *)
(*   "none"     None                                                       *)
(*   "raise"    the key function raised exc                                *)
(***************************************************************************)
Key(kind, v, d, exc) == [kind |-> kind, v |-> v, d |-> d, exc |-> exc]

Raise(exc) == Key("raise", 0, 0, exc)

\* paper.get('paper', {}).get('upvotes', 0): the default only for a missing key.
upvotes(paper) == IF paper.votes_kind = "missing" THEN 0 ELSE paper.votes

\* datetime.fromisoformat(published_at_str.replace('Z', '+00:00')) with its
\* except ValueError: the instant of the string; the clock reading `sub` for a
\* missing key (the default is now().isoformat(), which parses) and for a
\* string that does not parse.  Undefined for null, which has no .replace.
published_time(paper, sub) == IF paper.ts_kind = "iso" THEN paper.ts ELSE sub

\* calculate_score(paper); sub and diff are the clock readings of lines 22/27
\* and of line 29.
calculate_score(paper, sub, diff) ==
    IF paper.ts_kind = "null" THEN Raise("AttributeError")
    ELSE LET time_diff_hours == diff - published_time(paper, sub)
             d == time_diff_hours + 2
         IN  IF paper.votes_kind = "null" THEN Raise("TypeError")
             ELSE IF d = 0 THEN Raise("ZeroDivisionError")
             ELSE IF d < 0 THEN Key("complex", upvotes(paper), d, "")
             ELSE Key("hot", upvotes(paper), d, "")

\* calculate_rising_score(paper); sub and diff are the clock readings of lines
\* 42/46 and of line 48.
calculate_rising_score(paper, sub, diff) ==
    IF paper.ts_kind = "null" THEN Raise("AttributeError")
    ELSE LET time_diff_hours == diff - published_time(paper, sub)
             d == time_diff_hours + 1
         IN  IF paper.votes_kind = "null" THEN Raise("TypeError")
             ELSE IF d = 0 THEN Raise("ZeroDivisionError")
             ELSE Key("rising", upvotes(paper), d, "")

\* lambda x: x.get('publishedAt', ''): the raw string, '' for a missing key,
\* None for null.  "" sorts below every ISO string, ISO strings of one format
\* sort by instant, and "garbage" sorts above them (a letter above a digit).
published_key(paper) ==
    CASE paper.ts_kind = "null" -> Key("none", 0, 0, "")
      [] paper.ts_kind \in {"missing", "empty"} -> Key("str", 0, 0, "")
      [] paper.ts_kind = "iso" -> Key("str", 1, paper.ts, "")
      [] paper.ts_kind = "garbage" -> Key("str", 2, 0, "")

\* A key that Python can compare, as the fraction n/d (d > 0) followed by t:
\* the square of a hot score (the scores are >= 0, so the squares order as the
\* scores do), a rising score with the sign moved to the numerator, the place
\* of a string in lexicographic order.
Fraction(k) ==
    CASE k.kind = "hot" -> [n |-> k.v * k.v, d |-> k.d * k.d * k.d, t |-> 0]
      [] k.kind = "rising" ->
            IF k.d > 0 THEN [n |-> k.v, d |-> k.d, t |-> 0]
                       ELSE [n |-> -k.v, d |-> -k.d, t |-> 0]
      [] k.kind = "str" -> [n |-> k.v, d |-> 1, t |-> k.d]
      [] OTHER -> [n |-> 0, d |-> 1, t |-> 0]

\* a < b
Less(a, b) ==
    LET l == a.n * b.d
        r == b.n * a.d
    IN  l < r \/ (l = r /\ a.t < b.t)

\* A callback takes less than an hour, so the clock advances at most once
\* from the end of the callback before it to its own end: tick = 0 when it
\* does not advance, tick = k > 0 when it advances just before the k-th clock
\* read of the sort pass (tick = 1: at some time before the pass).  The clock
\* at the k-th read of a pass, `now` being the clock after the last callback:
ClockAt(now, tick, k) == IF tick # 0 /\ tick <= k THEN now + 1 ELSE now

\* When the clock may advance in a callback that sorts by score.
Schedules(now) == IF now < MaxClock THEN 0..MaxTickReads ELSE {0}

\* When it may advance in a callback that reads no clock for a sort.
Elapsed(now) == IF now < MaxClock THEN {0, 1} ELSE {0}

\* The key of the i-th item under `method`: the key functions are called in
\* list order, each reading the clock twice.
KeyOf(method, paper, i, now, tick) ==
    CASE method = "new" -> published_key(paper)
      [] method = "rising" ->
            calculate_rising_score(paper, ClockAt(now, tick, 2 * i - 1),
                                   ClockAt(now, tick, 2 * i))
      [] OTHER ->
            calculate_score(paper, ClockAt(now, tick, 2 * i - 1),
                            ClockAt(now, tick, 2 * i))

\* sorted(..., reverse=True) on keys fs that compare: descending and stable.
\* The place of item i is one more than the number of items that go before
\* it: those in front of it whose key is not smaller, and those behind it
\* whose key is greater.
Place(fs, i) ==
    1 + Cardinality({j \in 1..(i - 1) : ~Less(fs[j], fs[i])})
      + Cardinality({j \in (i + 1)..Len(fs) : Less(fs[i], fs[j])})

\* The i-th key of the pass, for every item.
Keys(raw, method, now, tick) ==
    SubSeq([i \in 1..Len(raw) |-> KeyOf(method, raw[i], i, now, tick)], 1, Len(raw))

\* sort_papers() on self.raw_papers = raw with self.sort_method = method:
\* [exc, papers].  exc is "" and papers the new self.papers, or exc is the
\* exception that left self.papers as it was (old).  A key function's
\* exception ends the pass; so does the first comparison with a complex
\* number or None (a list of one item is never compared).
sort_papers(raw, method, old, now, tick) ==
    LET n == Len(raw)
        keys == Keys(raw, method, now, tick)
        raising == {i \in 1..n : keys[i].kind = "raise"}
        first == CHOOSE i \in raising : \A j \in raising : i <= j
        incomparable == {i \in 1..n : keys[i].kind \in {"complex", "none"}}
        fs == SubSeq([i \in 1..n |-> Fraction(keys[i])], 1, n)
        place == SubSeq([i \in 1..n |-> Place(fs, i)], 1, n)
    IN  IF raising # {} THEN [exc |-> keys[first].exc, papers |-> old]
        ELSE IF n >= 2 /\ incomparable # {} THEN [exc |-> "TypeError", papers |-> old]
        ELSE [exc |-> "",
              papers |-> [p \in 1..n |-> raw[CHOOSE i \in 1..n : place[i] = p]]]

\* sort_papers() on an empty self.papers, for every list the API may return,
\* every method, every clock reading and every schedule: computed once.
SortedPapers ==
    [raw \in ApiData, method \in {"hot", "new", "rising"},
     now \in 0..MaxClock, tick \in 0..MaxTickReads |->
        sort_papers(raw, method, <<>>, now, tick)]

\* sort_papers() as the callbacks run it: self.raw_papers is always a list the
\* API returned, and a pass that raises leaves self.papers as it was (old).
sort_pass(raw, method, old, now, tick) ==
    LET s == SortedPapers[raw, method, now, tick]
    IN  IF s.exc # "" THEN [exc |-> s.exc, papers |-> old] ELSE s

\* The schedules of a callback that sorts: the "new" key reads no clock.
PassSchedules(method, now) == IF method = "new" THEN Elapsed(now) ELSE Schedules(now)

(***************************************************************************)
(* Rendering.  A document is [exc, doc, rows]: exc is the exception that   *)
(* escaped ("" for none); doc is "table", "no_papers" (the 'No papers      *)
(* available for this page' placeholder) or "fetch_failed"; rows are the   *)
(* table's rows, each the rank and the paper it shows (the age text of a   *)
(* row is not modelled).                                                   *)
(***************************************************************************)
Document(exc, doc, rows) == [exc |-> exc, doc |-> doc, rows |-> rows]

\* format_paper(paper, rank): published_time_str.replace raises on None, and
\* only ValueError is caught.
format_paper_raises(paper) == paper.ts_kind = "null"

format_paper(paper, rank) == [rank |-> rank, paper |-> paper]

\* A slice bound i on a list of n items: a negative one counts from the end,
\* and both are clamped to the list.
SliceIndex(i, n) == IF i < 0 THEN Max(i + n, 0) ELSE Min(i, n)

\* self.papers[start:end]: a Python slice.
Slice(ps, start, end) ==
    SubSeq(ps, SliceIndex(start, Len(ps)) + 1, SliceIndex(end, Len(ps)))

\* render_papers() with self.papers = ps and self.current_page = page.
render_papers(ps, page) ==
    LET start == (page - 1) * papers_per_page
        end == start + papers_per_page
        current_papers == Slice(ps, start, end)
    IN  IF current_papers = <<>> THEN Document("", "no_papers", <<>>)
        ELSE IF \E idx \in 1..Len(current_papers) : format_paper_raises(current_papers[idx])
        THEN Document("AttributeError", "", <<>>)
        ELSE Document("", "table",
                      [idx \in 1..Len(current_papers) |->
                          format_paper(current_papers[idx], (idx - 1) + start + 1)])

\* What a callback leaves in `last`: op, the callback; arg, its input (the
\* method string of change_sort, what the API answered to initialize);
\* exc, doc and rows, the document it returned.
Returned(op, arg, d) ==
    [op |-> op, arg |-> arg, exc |-> d.exc, doc |-> d.doc, rows |-> d.rows]

\* line 72
TotalPages(n) == Max((n + papers_per_page - 1) \div papers_per_page, 1)

(***************************************************************************)
(* The session.                                                            *)
(***************************************************************************)
Init ==
    /\ raw_papers = <<>>
    /\ papers = <<>>
    /\ sort_method = "hot"
    /\ current_page = 1
    /\ total_pages = 1
    /\ clock = 0
    /\ last = Returned("none", "", Document("", "", <<>>))
    /\ running = <<>>

FetchFailed == Document("", "fetch_failed", <<>>)

\* initialize_app() when requests.get or raise_for_status raises a
\* RequestException, or the API returns an empty list: fetch_papers returns
\* False before it has touched the session.
initialize_no_data ==
    \E response \in {"transport_error", "http_error", "empty"} :
    \E tick \in Elapsed(clock) :
        /\ last' = Returned("initialize", response, FetchFailed)
        /\ clock' = clock + tick
        /\ UNCHANGED <<raw_papers, papers, sort_method, current_page, total_pages, running>>

\* initialize_app() when the API returns a non-empty list: fetch_papers stores
\* it, sorts, recomputes total_pages and resets the page; an exception of the
\* sort is caught by `except Exception` after raw_papers was replaced.
initialize_data ==
    \E data \in ApiData \ {<<>>} :
    \E tick \in PassSchedules(sort_method, clock) :
        LET s == sort_pass(data, sort_method, papers, clock, tick)
        IN  /\ raw_papers' = data
            /\ papers' = s.papers
            /\ sort_method' = sort_method
            /\ running' = running
            /\ clock' = ClockAt(clock, tick, MaxTickReads)
            /\ IF s.exc # ""
               THEN /\ UNCHANGED <<total_pages, current_page>>
                    /\ last' = Returned("initialize", "data", FetchFailed)
               ELSE /\ total_pages' = TotalPages(Len(s.papers))
                    /\ current_page' = 1
                    /\ last' = Returned("initialize", "data", render_papers(s.papers, 1))

\* method.lower() on the strings the callers pass.
Lower(method) ==
    CASE method = "Hot" -> "hot"
      [] method = "New" -> "new"
      [] method = "Rising" -> "rising"
      [] OTHER -> method

MethodArgs == {"Hot", "New", "Rising", "bogus"}

\* set_sort_method(method), lines 109-110
Normalized(method) == IF method \notin {"hot", "new", "rising"} THEN "hot" ELSE method

\* change_sort_method(method): set_sort_method stores the method, sorts and
\* resets the page; an exception of the sort escapes the callback after
\* sort_method was stored.
change_sort_method ==
    \E arg \in MethodArgs :
        LET method == Normalized(Lower(arg)) IN
        \E tick \in PassSchedules(method, clock) :
            LET s == sort_pass(raw_papers, method, papers, clock, tick)
            IN  /\ sort_method' = method
                /\ papers' = s.papers
                /\ clock' = ClockAt(clock, tick, MaxTickReads)
                /\ UNCHANGED <<raw_papers, total_pages, running>>
                /\ IF s.exc # ""
                   THEN /\ UNCHANGED current_page
                        /\ last' = Returned("change_sort", arg, Document(s.exc, "", <<>>))
                   ELSE /\ current_page' = 1
                        /\ last' = Returned("change_sort", arg, render_papers(s.papers, 1))

\* next_page without its bound check.
next_page_unguarded ==
    \E tick \in Elapsed(clock) :
        /\ current_page' = current_page + 1
        /\ last' = Returned("next_page", "", render_papers(papers, current_page'))
        /\ clock' = clock + tick
        /\ UNCHANGED <<raw_papers, papers, sort_method, total_pages, running>>

next_page ==
    \E tick \in Elapsed(clock) :
        /\ current_page' = IF current_page < total_pages THEN current_page + 1 ELSE current_page
        /\ last' = Returned("next_page", "", render_papers(papers, current_page'))
        /\ clock' = clock + tick
        /\ UNCHANGED <<raw_papers, papers, sort_method, total_pages, running>>

prev_page ==
    \E tick \in Elapsed(clock) :
        /\ current_page' = IF current_page > 1 THEN current_page - 1 ELSE current_page
        /\ last' = Returned("prev_page", "", render_papers(papers, current_page'))
        /\ clock' = clock + tick
        /\ UNCHANGED <<raw_papers, papers, sort_method, total_pages, running>>

Next ==
    \/ initialize_no_data
    \/ initialize_data
    \/ change_sort_method
    \/ next_page
    \/ prev_page

Spec == Init /\ [][Next]_vars

(***************************************************************************)
(* The score functions on their own: one dated paper, scored again and     *)
(* again while the clock advances.  raw_papers holds the paper, and last   *)
(* the function called, the paper's age at the call and the key returned.  *)
(***************************************************************************)
MaxVotes == 3        \* the paper has 0..MaxVotes upvotes
MaxAgeHours == 4     \* the clock runs from 0 to MaxAgeHours

\* Papers published from three hours before clock 0 to two hours after it.
ScoredPapers ==
    { <<Paper(1, "int", v, "iso", t)>> : v \in 0..MaxVotes, t \in (-3)..2 }

Scored(op, age, key) == [op |-> op, age |-> age, key |-> key]

ScoreInit ==
    /\ raw_papers \in ScoredPapers
    /\ papers = <<>>
    /\ sort_method = "hot"
    /\ current_page = 1
    /\ total_pages = 1
    /\ clock = 0
    /\ last = Scored("none", 0, Raise(""))
    /\ running = <<>>

\* self.calculate_score(paper) at some later clock reading.
call_calculate_score ==
    \E now \in clock..MaxAgeHours :
        /\ clock' = now
        /\ last' = Scored("calculate_score", now - raw_papers[1].ts,
                          calculate_score(raw_papers[1], now, now))
        /\ UNCHANGED <<raw_papers, papers, sort_method, current_page, total_pages, running>>

\* self.calculate_rising_score(paper) at some later clock reading.
call_calculate_rising_score ==
    \E now \in clock..MaxAgeHours :
        /\ clock' = now
        /\ last' = Scored("calculate_rising_score", now - raw_papers[1].ts,
                          calculate_rising_score(raw_papers[1], now, now))
        /\ UNCHANGED <<raw_papers, papers, sort_method, current_page, total_pages, running>>

ScoreNext ==
    \/ call_calculate_score
    \/ call_calculate_rising_score

ScoreSpec == ScoreInit /\ [][ScoreNext]_vars

(***************************************************************************)
(* The callbacks on worker threads.  The UI runs each event handler on a   *)
(* thread of its own, all of them on the one module-level paper_manager,   *)
(* and the code takes no lock: a step is one read or one write of an       *)
(* attribute of paper_manager.  running[t] is the callback of thread t:    *)
(*   pc    where it stands ("idle": no callback)                           *)
(*   op    the callback, arg its input                                     *)
(*   x     the integer it has read (a page number, a length)               *)
(*   m     the branch of sort_papers it has taken                          *)
(*   r     the list it holds (the API's data, self.raw_papers as read)     *)
(*   seen  while render_papers stands between its read of current_page     *)
(*         and its read of papers: the values papers has had, since the    *)
(*         first read, in states whose current_page was the page read      *)
(*   calls the callbacks the thread has started                            *)
(* The clock stands still here.                                            *)
(***************************************************************************)
NumThreads == 2      \* callbacks that may be in flight at once
MaxCalls == 2        \* callbacks a thread runs, one after the other

Threads == 1..NumThreads

Idle(calls) ==
    [pc |-> "idle", op |-> "", arg |-> "", x |-> 0, m |-> "", r |-> <<>>, seen |-> {},
     calls |-> calls]

\* The callback op, started on thread t at pc with input arg and data r.
Started(t, op, pc, arg, r) ==
    [Idle(running[t].calls + 1) EXCEPT !.pc = pc, !.op = op, !.arg = arg, !.r = r]

\* What the API answers here: nothing, two papers, or two pages of papers.
ThreadData == { <<>>, <<Old(1), Fresh(2)>>, Gen(LongSize, "none") }

ThreadMethodArgs == {"Hot", "New"}

ThreadInit ==
    /\ raw_papers = <<>>
    /\ papers = <<>>
    /\ sort_method = "hot"
    /\ current_page = 1
    /\ total_pages = 1
    /\ clock = 0
    /\ last = Returned("none", "", Document("", "", <<>>))
    /\ running = [t \in Threads |-> Idle(0)]

\* running after thread t has moved to `rec`, the session being (ps, page)
\* after the step: every render_papers waiting to read papers notes ps when
\* page is the page it read.
Moved(t, rec, ps, page) ==
    LET run == [running EXCEPT ![t] = rec]
    IN  [u \in Threads |->
            IF run[u].pc = "r2" /\ run[u].x = page
            THEN [run[u] EXCEPT !.seen = @ \cup {ps}]
            ELSE run[u]]

\* Thread t moves to pc, having read x.
Step(t, pc, x) ==
    running' = Moved(t, [running[t] EXCEPT !.pc = pc, !.x = x], papers', current_page')

\* Thread t returns document d to the UI and is idle again.  The document is
\* a function of what the thread has read; `last` keeps, of it, only whether
\* an exception escaped and which kind of document it is.
Return(t, d) ==
    /\ last' = Returned(running[t].op, running[t].arg, Document(d.exc, d.doc, <<>>))
    /\ running' = Moved(t, Idle(running[t].calls), papers', current_page')

\* An event starts its handler on an idle thread.
begin(t) ==
    /\ running[t].pc = "idle"
    /\ running[t].calls < MaxCalls
    /\ \/ \E data \in ThreadData :
            running' = Moved(t, Started(t, "initialize", "f1",
                                        IF data = <<>> THEN "empty" ELSE "data", data),
                             papers, current_page)
       \/ \E arg \in ThreadMethodArgs :
            running' = Moved(t, Started(t, "change_sort", "c1", arg, <<>>),
                             papers, current_page)
       \/ running' = Moved(t, Started(t, "next_page", "n1", "", <<>>), papers, current_page)
       \/ running' = Moved(t, Started(t, "prev_page", "p1", "", <<>>), papers, current_page)
    /\ UNCHANGED <<raw_papers, papers, sort_method, current_page, total_pages, clock, last>>

\* fetch_papers, lines 62-69: no data, or self.raw_papers = data.
fetch_store(t) ==
    /\ running[t].pc = "f1"
    /\ UNCHANGED <<papers, sort_method, current_page, total_pages, clock>>
    /\ IF running[t].r = <<>>
       THEN /\ Return(t, FetchFailed)
            /\ UNCHANGED raw_papers
       ELSE /\ raw_papers' = running[t].r
            /\ Step(t, "s1", 0)
            /\ UNCHANGED last

\* set_sort_method, lines 109-112: self.sort_method = method.
set_method(t) ==
    /\ running[t].pc = "c1"
    /\ sort_method' = Normalized(Lower(running[t].arg))
    /\ UNCHANGED <<raw_papers, papers, current_page, total_pages, clock, last>>
    /\ Step(t, "s1", 0)

\* Thread t moves to pc, having taken branch m of sort_papers.
Branch(t, pc, m) ==
    running' = Moved(t, [running[t] EXCEPT !.pc = pc, !.m = m], papers, current_page)

\* sort_papers, line 83: if self.sort_method == "hot".
sort_if_hot(t) ==
    /\ running[t].pc = "s1"
    /\ IF sort_method = "hot" THEN Branch(t, "s4", "hot") ELSE Branch(t, "s2", "")
    /\ UNCHANGED <<raw_papers, papers, sort_method, current_page, total_pages, clock, last>>

\* line 89: elif self.sort_method == "new".
sort_elif_new(t) ==
    /\ running[t].pc = "s2"
    /\ IF sort_method = "new" THEN Branch(t, "s4", "new") ELSE Branch(t, "s3", "")
    /\ UNCHANGED <<raw_papers, papers, sort_method, current_page, total_pages, clock, last>>

\* line 95: elif self.sort_method == "rising", and the else branch, which
\* sorts by hot score.
sort_elif_rising(t) ==
    /\ running[t].pc = "s3"
    /\ IF sort_method = "rising" THEN Branch(t, "s4", "rising") ELSE Branch(t, "s4", "hot")
    /\ UNCHANGED <<raw_papers, papers, sort_method, current_page, total_pages, clock, last>>

\* sorted(self.raw_papers, ...): the read of self.raw_papers.
sort_read_raw(t) ==
    /\ running[t].pc = "s4"
    /\ running' = Moved(t, [running[t] EXCEPT !.pc = "s5", !.r = raw_papers],
                        papers, current_page)
    /\ UNCHANGED <<raw_papers, papers, sort_method, current_page, total_pages, clock, last>>

\* self.papers = sorted(...), or the exception of the sort: caught in
\* fetch_papers (line 78), escaping from change_sort_method.
sort_assign(t) ==
    /\ running[t].pc = "s5"
    /\ UNCHANGED <<raw_papers, sort_method, current_page, total_pages, clock>>
    /\ LET s == sort_pass(running[t].r, running[t].m, papers, clock, 0)
       IN  /\ papers' = s.papers
           /\ IF s.exc # ""
              THEN Return(t, IF running[t].op = "initialize" THEN FetchFailed
                             ELSE Document(s.exc, "", <<>>))
              ELSE /\ running' = Moved(t, [running[t] EXCEPT
                                              !.pc = IF running[t].op = "initialize"
                                                     THEN "f2" ELSE "c2",
                                              !.m = "", !.r = <<>>],
                                       papers', current_page)
                   /\ UNCHANGED last

\* fetch_papers, line 72: the read of len(self.papers).
fetch_count(t) ==
    /\ running[t].pc = "f2"
    /\ UNCHANGED <<raw_papers, papers, sort_method, current_page, total_pages, clock, last>>
    /\ Step(t, "f3", Len(papers))

\* line 72: self.total_pages = max((... + 29) // 30, 1).
fetch_total_pages(t) ==
    /\ running[t].pc = "f3"
    /\ total_pages' = TotalPages(running[t].x)
    /\ UNCHANGED <<raw_papers, papers, sort_method, current_page, clock, last>>
    /\ Step(t, "f4", 0)

\* self.current_page = 1: line 73 of fetch_papers, line 114 of set_sort_method.
reset_page(t) ==
    /\ running[t].pc \in {"f4", "c2"}
    /\ current_page' = 1
    /\ UNCHANGED <<raw_papers, papers, sort_method, total_pages, clock, last>>
    /\ Step(t, "r1", 0)

\* next_page, line 164: the read of self.current_page.
next_read_page(t) ==
    /\ running[t].pc = "n1"
    /\ UNCHANGED <<raw_papers, papers, sort_method, current_page, total_pages, clock, last>>
    /\ Step(t, "n2", current_page)

\* line 164: the read of self.total_pages and the comparison.
next_compare(t) ==
    /\ running[t].pc = "n2"
    /\ UNCHANGED <<raw_papers, papers, sort_method, current_page, total_pages, clock, last>>
    /\ IF running[t].x < total_pages THEN Step(t, "n3", 0) ELSE Step(t, "r1", 0)

\* line 165, self.current_page += 1: the read.
next_read_again(t) ==
    /\ running[t].pc = "n3"
    /\ UNCHANGED <<raw_papers, papers, sort_method, current_page, total_pages, clock, last>>
    /\ Step(t, "n4", current_page)

\* line 165: the write.
next_write_page(t) ==
    /\ running[t].pc = "n4"
    /\ current_page' = running[t].x + 1
    /\ UNCHANGED <<raw_papers, papers, sort_method, total_pages, clock, last>>
    /\ Step(t, "r1", 0)

\* prev_page, line 169: the read of self.current_page and the comparison.
prev_compare(t) ==
    /\ running[t].pc = "p1"
    /\ UNCHANGED <<raw_papers, papers, sort_method, current_page, total_pages, clock, last>>
    /\ IF current_page > 1 THEN Step(t, "p2", 0) ELSE Step(t, "r1", 0)

\* line 170, self.current_page -= 1: the read.
prev_read_again(t) ==
    /\ running[t].pc = "p2"
    /\ UNCHANGED <<raw_papers, papers, sort_method, current_page, total_pages, clock, last>>
    /\ Step(t, "p3", current_page)

\* line 170: the write.
prev_write_page(t) ==
    /\ running[t].pc = "p3"
    /\ current_page' = running[t].x - 1
    /\ UNCHANGED <<raw_papers, papers, sort_method, total_pages, clock, last>>
    /\ Step(t, "r1", 0)

\* render_papers, line 149: the read of self.current_page.
render_read_page(t) ==
    /\ running[t].pc = "r1"
    /\ UNCHANGED <<raw_papers, papers, sort_method, current_page, total_pages, clock, last>>
    /\ Step(t, "r2", current_page)

\* lines 151-161: the read of self.papers, the slice and the document.
render_return(t) ==
    /\ running[t].pc = "r2"
    /\ UNCHANGED <<raw_papers, papers, sort_method, current_page, total_pages, clock>>
    /\ Return(t, render_papers(papers, running[t].x))

ThreadNext ==
    \E t \in Threads :
        \/ begin(t)
        \/ fetch_store(t)
        \/ set_method(t)
        \/ sort_if_hot(t)
        \/ sort_elif_new(t)
        \/ sort_elif_rising(t)
        \/ sort_read_raw(t)
        \/ sort_assign(t)
        \/ fetch_count(t)
        \/ fetch_total_pages(t)
        \/ reset_page(t)
        \/ next_read_page(t)
        \/ next_compare(t)
        \/ next_read_again(t)
        \/ next_write_page(t)
        \/ prev_compare(t)
        \/ prev_read_again(t)
        \/ prev_write_page(t)
        \/ render_read_page(t)
        \/ render_return(t)

ThreadSpec == ThreadInit /\ [][ThreadNext]_vars

(***************************************************************************)
(* The claims.                                                             *)
(***************************************************************************)
Count(seq, x) == Cardinality({i \in 1..Len(seq) : seq[i] = x})

IsPermutation(a, b) ==
    /\ Len(a) = Len(b)
    /\ \A i \in 1..Len(a) : Count(a, a[i]) = Count(b, a[i])

\* C1: in every reachable state 1 <= current_page <= total_pages.
C1_PageInRange == 1 <= current_page /\ current_page <= total_pages

\* C1's case: next_page has reached the last of two pages.
C1_Witness ==
    /\ last.op = "next_page"
    /\ total_pages = 2
    /\ current_page = total_pages

\* C2: in every reachable state total_pages is
\* max(ceil(len(raw_papers) / papers_per_page), 1).
C2_TotalPagesOfRaw == total_pages = TotalPages(Len(raw_papers))

\* C3: in every reachable state papers is a permutation of raw_papers.
C3_SortedIsPermutation == IsPermutation(papers, raw_papers)

\* ps is what a sort pass over raw under method yields, for a pass that began
\* at some clock reading up to now.
SortedBy(ps, raw, method, now) ==
    \E start \in 0..now : \E tick \in PassSchedules(method, start) :
        LET s == sort_pass(raw, method, <<>>, start, tick)
        IN  s.exc = "" /\ s.papers = ps

\* C4: after every call of change_sort, current_page is 1 and papers is
\* raw_papers sorted by the stored sort method.
C4_ChangeSortResets ==
    last.op = "change_sort" =>
        /\ current_page = 1
        /\ SortedBy(papers, raw_papers, sort_method, clock)

\* C5: after every successful initialize (one that returned the table of
\* papers) the sort method is hot, papers is raw_papers sorted by hot score,
\* and current_page is 1.
C5_InitializeSortsHot ==
    (last.op = "initialize" /\ last.doc = "table") =>
        /\ sort_method = "hot"
        /\ current_page = 1
        /\ SortedBy(papers, raw_papers, "hot", clock)

\* C6: next_page adds exactly 1 to current_page below total_pages and
\* otherwise leaves it, prev_page subtracts exactly 1 above page 1 and
\* otherwise leaves it, neither raises, and neither changes raw_papers,
\* papers, sort_method or total_pages.
C6_NextPrev ==
    [][/\ last'.op = "next_page" =>
            /\ current_page' = IF current_page < total_pages
                               THEN current_page + 1 ELSE current_page
            /\ last'.exc = ""
            /\ UNCHANGED <<raw_papers, papers, sort_method, total_pages>>
       /\ last'.op = "prev_page" =>
            /\ current_page' = IF current_page > 1
                               THEN current_page - 1 ELSE current_page
            /\ last'.exc = ""
            /\ UNCHANGED <<raw_papers, papers, sort_method, total_pages>>]_vars

\* The rows of page p of ps, as the claim states them: the items at 0-based
\* positions [(p-1)*30, min(p*30, n)), ranked from (p-1)*30 + 1.
RowsOfPage(ps, p) ==
    LET first == (p - 1) * papers_per_page
        count == Max(Min(p * papers_per_page, Len(ps)) - first, 0)
    IN  [k \in 1..count |-> [rank |-> first + k, paper |-> ps[first + k]]]

\* C7: a rendered page holds exactly the rows of the current page, and the
\* pages 1..total_pages show every sorted item: each position of papers lies
\* on one of them.
C7_PagesShowAll ==
    /\ last.doc = "table" => last.rows = RowsOfPage(papers, current_page)
    /\ \A i \in 1..Len(papers) :
          \E p \in 1..total_pages :
              (p - 1) * papers_per_page < i /\ i <= p * papers_per_page

\* ps is in descending order of the scores of `method` at the one instant
\* now: every score is a float, and no item stands behind one with a strictly
\* smaller score.
OrderedAt(ps, method, now) ==
    LET key(i) == KeyOf(method, ps[i], 1, now, 0)
    IN  /\ \A i \in 1..Len(ps) : key(i).kind \in {"hot", "rising"}
        /\ \A i \in 1..Len(ps) : \A j \in (i + 1)..Len(ps) :
              ~Less(Fraction(key(i)), Fraction(key(j)))

\* C8: after an initialize or change_sort that sorted by hot or rising
\* score, papers is in descending order of the score at one instant of the
\* call.
C8_OrderedAtOneInstant ==
    [][(/\ last'.op \in {"initialize", "change_sort"}
        /\ last'.doc # "fetch_failed"
        /\ last'.exc = ""
        /\ sort_method' \in {"hot", "rising"})
          => \E now \in clock..clock' : OrderedAt(papers', sort_method', now)]_vars

\* C9: no exception escapes change_sort, and the sort keeps the length.
C9_ChangeSortNeverRaises ==
    last.op = "change_sort" => (last.exc = "" /\ Len(papers) = Len(raw_papers))

\* C10: an initialize that returns the failure document leaves raw_papers,
\* papers, total_pages, current_page and sort_method as they were.
C10_FailedInitializeChangesNothing ==
    [][(last'.op = "initialize" /\ last'.doc = "fetch_failed")
          => UNCHANGED <<raw_papers, papers, total_pages, current_page, sort_method>>]_vars

\* C11: after an initialize whose fetch returned an empty list, total_pages
\* and current_page are 1, raw_papers and papers are empty, and the returned
\* document is the 'No papers available for this page' placeholder.
C11_EmptyFetchResets ==
    (last.op = "initialize" /\ last.arg = "empty") =>
        /\ total_pages = 1
        /\ current_page = 1
        /\ raw_papers = <<>>
        /\ papers = <<>>
        /\ last.doc = "no_papers"

\* C12: change_sort with a method string that is not hot, new or rising makes
\* hot the stored method, sorts by hot score, resets the page to 1 and raises
\* nothing; the stored method is hot, new or rising in every reachable state.
C12_UnknownMethodIsHot ==
    /\ sort_method \in {"hot", "new", "rising"}
    /\ (last.op = "change_sort" /\ Lower(last.arg) \notin {"hot", "new", "rising"}) =>
          /\ sort_method = "hot"
          /\ last.exc = ""
          /\ current_page = 1
          /\ SortedBy(papers, raw_papers, "hot", clock)

\* The timestamp of the paper is a string that fails to parse, or is missing.
FailsToParse(paper) == paper.ts_kind \in {"missing", "empty", "garbage"}

\* C13: after a sort under the new method, every paper whose timestamp fails
\* to parse stands before every paper with a parsable timestamp in the past.
C13_NewPutsUnparsableFirst ==
    (/\ last.op \in {"initialize", "change_sort"}
     /\ last.doc # "fetch_failed"
     /\ last.exc = ""
     /\ sort_method = "new") =>
        \A i, j \in 1..Len(papers) :
            (/\ FailsToParse(papers[i])
             /\ papers[j].ts_kind = "iso"
             /\ papers[j].ts < clock) => i < j

\* The position of the paper with this id in ps.
PositionOf(ps, id) == CHOOSE k \in 1..Len(ps) : ps[k].id = id

\* Two papers with the same vote count and the same publication timestamp.
SameVotesAndTime(a, b) ==
    /\ a.votes_kind = b.votes_kind /\ a.votes = b.votes
    /\ a.ts_kind = b.ts_kind /\ a.ts = b.ts

\* C15: after a sort under any method, two papers of raw_papers with the same
\* vote count and the same publication timestamp stand in papers in the order
\* they have in raw_papers.
C15_SortIsStable ==
    (/\ last.op \in {"initialize", "change_sort"}
     /\ last.doc # "fetch_failed"
     /\ last.exc = "") =>
        \A i, j \in 1..Len(raw_papers) :
            (i < j /\ SameVotesAndTime(raw_papers[i], raw_papers[j])) =>
                PositionOf(papers, raw_papers[i].id) < PositionOf(papers, raw_papers[j].id)

\* C17: in every reachable state with papers non-empty the current page
\* starts inside papers, and no callback returns the 'No papers available
\* for this page' placeholder.
C17_NoEmptyPageWithData ==
    papers # <<>> =>
        /\ (current_page - 1) * papers_per_page < Len(papers)
        /\ last.doc # "no_papers"

\* The key is a float that is >= 0 (a quotient of integers with a non-zero
\* denominator is finite).
DefinedNonNegative(key) ==
    /\ key.kind \in {"hot", "rising"}
    /\ ~Less(Fraction(key), Fraction(Key("rising", 0, 1, "")))

\* C16: for every vote count >= 0 and every age > -2 hours the hot score and
\* the rising score are defined, non-negative and finite, and a later hot
\* score of the same paper, at a strictly larger age, is strictly smaller.
C16_ScoresDefinedAndDecreasing ==
    [][(last'.op \in {"calculate_score", "calculate_rising_score"} /\ last'.age > -2)
          => /\ DefinedNonNegative(last'.key)
             /\ (/\ last.op = "calculate_score"
                 /\ last'.op = "calculate_score"
                 /\ last.age > -2
                 /\ last'.age > last.age)
                    => Less(Fraction(last'.key), Fraction(last.key))]_vars

\* C14: with the callbacks interleaved on worker threads, current_page stays
\* within 1..total_pages, and every page that render_papers returns is the
\* slice of one state of the session: papers as it read it stood, at some
\* moment since its read of current_page, beside the page number it read.
C14_ThreadsSerialized ==
    [][/\ 1 <= current_page' /\ current_page' <= total_pages'
       /\ \A t \in DOMAIN running :
             (running[t].pc = "r2" /\ running'[t].pc = "idle")
                => papers \in running[t].seen]_vars

====
